---- MODULE Spec2Model ----
(***************************************************************************)
(* Model of playwright_mcp_agent: the MCP server registry (mcp_servers.py), *)
(* the tool dispatcher (dispatch_tool_call), the agent loop                 *)
(* (agent_core.run_agent_once) and the CLI chat loop (cli.chat_loop).       *)
(*                                                                          *)
(* Text is modelled run-length encoded: a string is a sequence of runs      *)
(* [c |-> atom, n |-> count] in which adjacent runs have different atoms.   *)
(* An atom is one character ("b", "k", "_", "y") or one of the fixed        *)
(* message fragments of the source (Width gives its number of characters). *)
(* The characters used for names, details and outputs occur in none of the  *)
(* fixed fragments, so the substring test on runs is exact.  The encoding   *)
(* lets an 8000 character output be a value of the model.                   *)
(***************************************************************************)
EXTENDS Naturals, Sequences, FiniteSets

\* ------------------------------------------------------------------ bounds
MaxProviders == 2      \* providers in a configuration
MaxTools == 2          \* tools one provider lists
MaxNameLen == 3        \* characters of a provider or tool name (SpecNames)
MaxInvocations == 2    \* tool invocations the model issues during one run
MaxRequests == 3       \* model requests after which the model stops requesting tools
MaxQueries == 2        \* user queries during one run

\* ------------------------------------------------------- program constants
TOOL_SEPARATOR == <<[c |-> "_", n |-> 2]>>
MaxOutput == 8000

\* -------------------------------------------------------------------- text
None == <<>>
Some(x) == <<x>>

Run(a, k) == IF k = 0 THEN <<>> ELSE <<[c |-> a, n |-> k]>>
Lit(a) == Run(a, 1)

\* number of characters of an atom
Width(a) ==
  CASE a = "Tool name '" -> 11
    [] a = "' does not match the expected format." -> 37
    [] a = "MCP server '" -> 12
    [] a = "' session not found." -> 20
    [] a = "Error while executing MCP tool '" -> 32
    [] a = "': " -> 3
    [] a = "Tool returned no content." -> 25
    [] a = "\n...(output truncated)..." -> 25
    [] a = "RuntimeError('" -> 14
    [] a = "')" -> 2
    [] OTHER -> 1

\* len(s)
RECURSIVE StrLen(_)
StrLen(s) ==
  IF s = <<>> THEN 0 ELSE Width(Head(s).c) * Head(s).n + StrLen(Tail(s))

\* s + t
Cat(s, t) ==
  IF s = <<>> THEN t
  ELSE IF t = <<>> THEN s
  ELSE IF s[Len(s)].c = t[1].c
    THEN SubSeq(s, 1, Len(s) - 1)
         \o <<[c |-> t[1].c, n |-> s[Len(s)].n + t[1].n]>>
         \o Tail(t)
    ELSE s \o t

\* s[:k]; a fixed fragment cut in its middle leaves its characters as "~"
RECURSIVE Take(_, _)
Take(s, k) ==
  IF s = <<>> \/ k = 0 THEN <<>>
  ELSE LET w == Width(Head(s).c)
           whole == IF Head(s).n * w <= k THEN Head(s).n ELSE k \div w
           used == whole * w
       IN  IF whole = Head(s).n
             THEN Cat(Run(Head(s).c, whole), Take(Tail(s), k - used))
             ELSE Cat(Run(Head(s).c, whole), Run("~", k - used))

\* needle in hay
Contains(hay, needle) ==
  LET k == Len(needle) IN
  IF k = 0 THEN TRUE
  ELSE \E i \in 1..Len(hay) :
         /\ i + k - 1 <= Len(hay)
         /\ hay[i].c = needle[1].c
         /\ hay[i + k - 1].c = needle[k].c
         /\ IF k = 1 THEN hay[i].n >= needle[1].n
            ELSE /\ hay[i].n >= needle[1].n
                 /\ hay[i + k - 1].n >= needle[k].n
                 /\ \A j \in 2..(k - 1) : hay[i + j - 1] = needle[j]

\* the run-length encoding of a sequence of characters
RECURSIVE Str(_)
Str(chars) ==
  IF chars = <<>> THEN <<>> ELSE Cat(Lit(Head(chars)), Str(Tail(chars)))

\* index of the first run holding the separator, 0 when there is none
FirstSep(s) ==
  LET hits == {i \in 1..Len(s) : s[i].c = "_" /\ s[i].n >= 2}
  IN  IF hits = {} THEN 0 ELSE CHOOSE i \in hits : \A j \in hits : i <= j

\* index of the last run holding the separator, 0 when there is none
LastSep(s) ==
  LET hits == {i \in 1..Len(s) : s[i].c = "_" /\ s[i].n >= 2}
  IN  IF hits = {} THEN 0 ELSE CHOOSE i \in hits : \A j \in hits : i >= j

\* raw_name.rsplit(TOOL_SEPARATOR, 1)
rsplit(s) ==
  LET i == LastSep(s) IN
  IF i = 0 THEN <<s>>
  ELSE <<SubSeq(s, 1, i - 1) \o Run("_", s[i].n - 2),
         SubSeq(s, i + 1, Len(s))>>

\* raw_name.split(TOOL_SEPARATOR, 1): a list of one or two strings
Split(s) ==
  LET i == FirstSep(s) IN
  IF i = 0 THEN <<s>>
  ELSE <<SubSeq(s, 1, i - 1),
         Run("_", s[i].n - 2) \o SubSeq(s, i + 1, Len(s))>>

\* f"{server_name}{TOOL_SEPARATOR}{tool.name}"
unique_name(server_name, tool_name) ==
  Cat(Cat(server_name, TOOL_SEPARATOR), tool_name)

\* ------------------------------------------------------------ dispatcher
\* json.loads on the argument strings of the model: a dict, a document the
\* decoder rejects (JSONDecodeError) or one nested deeper than the
\* interpreter's recursion limit (RecursionError, no JSONDecodeError)
DeepJson == "[[[[...1000000 levels"
json_loads(s) ==
  CASE s = "{}" -> [exc |-> "none", value |-> {}]
    [] s = "{\"k\": 1}" -> [exc |-> "none", value |-> {<<"k", 1>>}]
    [] s = DeepJson -> [exc |-> "RecursionError", value |-> {}]
    [] OTHER -> [exc |-> "JSONDecodeError", value |-> {}]

\* tool_call.function.arguments or "{}"
args_or_default(arguments) ==
  IF arguments = None \/ arguments = Some("") THEN "{}" ELSE arguments[1]

\* one content part rendered: c.text for TextContent, str(c) otherwise
\* (a part of another type carries its str() rendering in .text)
part_text(c) == c.text

RECURSIVE join_parts(_)
join_parts(parts) ==
  IF parts = <<>> THEN <<>>
  ELSE IF Len(parts) = 1 THEN part_text(parts[1])
  ELSE Cat(Cat(part_text(parts[1]), Lit("\n")), join_parts(Tail(parts)))

call_result_to_text(result) ==
  IF result.content = <<>> THEN Lit("Tool returned no content.")
  ELSE join_parts(result.content)

\* lines 242-243: the cap on a converted result
truncate(text) ==
  IF StrLen(text) > MaxOutput
    THEN Cat(Take(text, MaxOutput), Lit("\n...(output truncated)..."))
    ELSE text

\* repr(exc) of the exception a provider call raised
exc_repr(detail) == Cat(Cat(Lit("RuntimeError('"), detail), Lit("')"))

format_mismatch_text(raw_name) ==
  Cat(Cat(Lit("Tool name '"), raw_name),
      Lit("' does not match the expected format."))

session_not_found_text(server_name) ==
  Cat(Cat(Lit("MCP server '"), server_name), Lit("' session not found."))

tool_error_text_no_detail(raw_name, detail) ==
  Cat(Cat(Lit("Error while executing MCP tool '"), raw_name), Lit("'"))
tool_error_text(raw_name, detail) ==
  Cat(Cat(Cat(Lit("Error while executing MCP tool '"), raw_name), Lit("': ")),
      exc_repr(detail))

\* ------------------------------------------------------------------ state
VARIABLES
  raw,            \* RAW_CONFIG: the configured provider names, in dict order
  servers,        \* Dict[str, MCPServer] in insertion order: [name, session]
  stack,          \* contexts entered on the AsyncExitStack, oldest first
  closed,         \* contexts exited so far, in the order they were exited
  openai_tools,   \* the function names of the tool list init_servers builds
  pc,             \* where the main task is
  k,              \* init_servers: index of the server being started
  status,         \* how the run ended ("" while it runs)
  nq,             \* queries read so far
  messages,       \* run_agent_once: the conversation
  tool_calls,     \* run_agent_once: the invocations of the last reply
  tool_messages,  \* run_agent_once: the tool messages of the round
  i,              \* run_agent_once: index of the invocation being dispatched
  msg,            \* run_agent_once: the last reply of the model (None before)
  answer,         \* what run_agent_once returned last (None before)
  requests,       \* the message lists sent to the model service, in order
  ninv,           \* invocations the model has issued so far
  d_pc,           \* dispatch_tool_call: idle, call_tool, returned or raised
  d_tc,           \* dispatch_tool_call: its tool_call argument
  d_ret,          \* dispatch_tool_call: the text it returned
  d_exc,          \* dispatch_tool_call: the exception it let through
  d_reply,        \* dispatch_tool_call: result or exc of its call_tool
  calls,          \* every call_tool request sent to a provider session
  dispatched      \* history: [id, text] of every dispatch that returned

loopVars == <<raw, servers, stack, closed, openai_tools, pc, k, status, nq>>
agentVars == <<messages, tool_calls, tool_messages, i, msg, answer, requests,
               ninv>>
dispVars == <<d_pc, d_tc, d_ret, d_exc, d_reply, calls, dispatched>>
vars == <<loopVars, agentVars, dispVars>>

\* servers.get(server_name): the index of the entry, 0 for no entry
servers_get(srvs, server_name) ==
  LET hits == {j \in 1..Len(srvs) : srvs[j].name = server_name}
  IN  IF hits = {} THEN 0 ELSE CHOOSE j \in hits : TRUE

\* what the provider-side of a call_tool request sees
call_request(server, mcp_tool_name, args) ==
  [server |-> server.name, session |-> server.session[1],
   name |-> mcp_tool_name, arguments |-> args]

\* lines 219-222: the arguments passed on after the parse
parsed_args(parsed) == IF parsed.exc = "none" THEN parsed.value ELSE {}

\* lines 229-230: whether the dispatch stops at the session check
no_session(srvs, server_name) ==
  \/ servers_get(srvs, server_name) = 0
  \/ srvs[servers_get(srvs, server_name)].session = None

\* dispatch_tool_call returns text to its caller
Returns(tc, text) ==
  /\ d_pc' = "returned"
  /\ d_ret' = text
  /\ dispatched' = Append(dispatched, [id |-> tc.id, text |-> text])

\* dispatch_tool_call from its entry to its first await or return
DispatchEnter(tc) ==
  LET raw_name == tc.name
      parsed == json_loads(args_or_default(tc.arguments))
      parts == Split(raw_name)
  IN  /\ d_pc = "idle"
      /\ d_tc' = Some(tc)
      /\ d_reply' = None
      /\ IF parsed.exc = "RecursionError"
           THEN /\ d_pc' = "raised"
                /\ d_exc' = "RecursionError"
                /\ UNCHANGED <<d_ret, calls, dispatched>>
         ELSE IF Len(parts) # 2
           THEN /\ Returns(tc, format_mismatch_text(raw_name))
                /\ UNCHANGED <<d_exc, calls>>
         ELSE IF no_session(servers, parts[1])
           THEN /\ Returns(tc, session_not_found_text(parts[1]))
                /\ UNCHANGED <<d_exc, calls>>
         ELSE /\ d_pc' = "call_tool"
              /\ calls' = Append(calls,
                   call_request(servers[servers_get(servers, parts[1])],
                                parts[2], parsed_args(parsed)))
              /\ UNCHANGED <<d_ret, d_exc, dispatched>>

\* the session of the outstanding call_tool is inside its context: the
\* provider can answer (a call on an exited session only raises)
session_open ==
  [kind |-> "session", name |-> calls[Len(calls)].server] \in
    {stack[n] : n \in DOMAIN stack}

\* the awaited call_tool returns a CallToolResult
CallToolReturns(result) ==
  /\ d_pc = "call_tool"
  /\ session_open
  /\ d_reply' = Some([kind |-> "result", result |-> result])
  /\ Returns(d_tc[1], truncate(call_result_to_text(result)))
  /\ UNCHANGED <<d_tc, d_exc, calls, loopVars, agentVars>>

\* the awaited call_tool returns an object without a content attribute
CallToolMalformed ==
  /\ d_pc = "call_tool"
  /\ session_open
  /\ d_pc' = "raised"
  /\ d_exc' = "AttributeError"
  /\ d_reply' = Some([kind |-> "malformed"])
  /\ UNCHANGED <<d_tc, d_ret, calls, dispatched, loopVars, agentVars>>

\* a dispatch that marks the provider as gone when its call raises
CallToolRaisesDropsSession(detail) ==
  /\ d_pc = "call_tool"
  /\ d_reply' = Some([kind |-> "exc", detail |-> detail])
  /\ Returns(d_tc[1], tool_error_text(d_tc[1].name, detail))
  /\ servers' = [j \in DOMAIN servers |->
                   IF servers[j].name = calls[Len(calls)].server
                     THEN [servers[j] EXCEPT !.session = None]
                     ELSE servers[j]]
  /\ UNCHANGED <<d_tc, d_exc, calls, raw, stack, closed, openai_tools, pc, k,
                 status, nq, agentVars>>

\* the awaited call_tool raises an Exception
CallToolRaises(detail) ==
  /\ d_pc = "call_tool"
  /\ d_reply' = Some([kind |-> "exc", detail |-> detail])
  /\ Returns(d_tc[1], tool_error_text(d_tc[1].name, detail))
  /\ UNCHANGED <<d_tc, d_exc, calls, loopVars, agentVars>>

\* --------------------------------------------------------------- startup
RECURSIVE Reverse(_)
Reverse(s) == IF s = <<>> THEN <<>> ELSE Append(Reverse(Tail(s)), Head(s))

\* leaving chat_loop without the async-with block: nothing is released
ExitNoRelease(reason) ==
  /\ pc' = "exited"
  /\ status' = reason
  /\ UNCHANGED <<stack, closed>>

\* an exception leaves chat_loop: the AsyncExitStack exits every context it
\* entered, newest first, and asyncio.run ends the process
ExitStack(reason) ==
  /\ stack' = <<>>
  /\ closed' = closed \o Reverse(stack)
  /\ pc' = "exited"
  /\ status' = reason

\* build_servers(RAW_CONFIG): one MCPServer per key, session None
build_servers(cfg) == [j \in 1..Len(cfg) |-> [name |-> cfg[j], session |-> None]]

\* main() up to the first await of init_servers
BuildServers ==
  /\ pc = "main"
  /\ servers' = build_servers(raw)
  /\ openai_tools' = <<>>
  /\ IF Len(raw) = 0 THEN pc' = "prompt" /\ k' = 0 ELSE pc' = "spawn" /\ k' = 1
  /\ UNCHANGED <<raw, stack, closed, status, nq, agentVars, dispVars>>

\* stack.enter_async_context(stdio_client(...)) spawns the provider process
Spawn ==
  /\ pc = "spawn"
  /\ stack' = Append(stack, [kind |-> "stdio", name |-> servers[k].name])
  /\ pc' = "session"
  /\ UNCHANGED <<raw, servers, closed, openai_tools, k, status, nq,
                 agentVars, dispVars>>

\* server.session = await stack.enter_async_context(ClientSession(...))
OpenSession ==
  /\ pc = "session"
  /\ stack' = Append(stack, [kind |-> "session", name |-> servers[k].name])
  /\ servers' = [servers EXCEPT ![k].session = Some(servers[k].name)]
  /\ pc' = "initialize"
  /\ UNCHANGED <<raw, closed, openai_tools, k, status, nq, agentVars, dispVars>>

\* await server.session.initialize()
Initialize ==
  /\ pc = "initialize"
  /\ pc' = "list_tools"
  /\ UNCHANGED <<raw, servers, stack, closed, openai_tools, k, status, nq,
                 agentVars, dispVars>>

\* lines 166-167: the entries one server adds to the tool list
server_tools(server_name, tools) ==
  [j \in 1..Len(tools) |-> unique_name(server_name, tools[j])]

\* init_servers returning from inside its loop, after the first server
ListToolsReturnsEarly(tools) ==
  /\ pc = "list_tools"
  /\ openai_tools' = openai_tools \o server_tools(servers[k].name, tools)
  /\ pc' = "prompt"
  /\ k' = 0
  /\ UNCHANGED <<raw, servers, stack, closed, status, nq, agentVars, dispVars>>

\* await server.session.list_tools() and the conversion of its tools; after
\* the last server init_servers returns and chat_loop prints the tool list
ListTools(tools) ==
  /\ pc = "list_tools"
  /\ openai_tools' = openai_tools \o server_tools(servers[k].name, tools)
  /\ IF k < Len(servers) THEN pc' = "spawn" /\ k' = k + 1
                         ELSE pc' = "prompt" /\ k' = 0
  /\ UNCHANGED <<raw, servers, stack, closed, status, nq, agentVars, dispVars>>

\* an awaited startup step raises: launch, handshake or listing failure
StartupFails ==
  /\ pc \in {"spawn", "initialize", "list_tools"}
  /\ ExitStack(IF pc = "spawn" THEN "LaunchError"
           ELSE IF pc = "initialize" THEN "HandshakeError" ELSE "ListError")
  /\ UNCHANGED <<raw, servers, openai_tools, k, nq, agentVars, dispVars>>

\* ------------------------------------------------------------ agent loop
SYSTEM_PROMPT == Lit("SYSTEM_PROMPT")

\* a conversation list kept across queries: the new query is appended to it
initial_messages_appended(user_query) ==
  messages \o <<[role |-> "system", content |-> SYSTEM_PROMPT],
                [role |-> "user", content |-> user_query]>>

\* lines 68-71
initial_messages(user_query) ==
  <<[role |-> "system", content |-> SYSTEM_PROMPT],
    [role |-> "user", content |-> user_query]>>

\* msg.model_dump()
model_dump(reply) ==
  [role |-> "assistant", content |-> reply.content,
   tool_calls |-> reply.tool_calls]

\* msg.content or ""
final_answer_str(reply) ==
  IF reply.content = None THEN Lit("None") ELSE reply.content[1]
final_answer(reply) ==
  IF reply.content = None \/ reply.content = Some(<<>>) THEN <<>>
  ELSE reply.content[1]

\* lines 98-105
tool_message(tc, tool_output) ==
  [role |-> "tool", tool_call_id |-> tc.id, name |-> tc.name,
   content |-> tool_output]

\* line 106: messages.extend(tool_messages)
extend_reversed(msgs, tms) == msgs \o Reverse(tms)
extend(msgs, tms) == msgs \o tms

\* chat_loop reads a query and run_agent_once seeds the conversation
RunQuery(user_text) ==
  /\ pc = "prompt"
  /\ nq < MaxQueries
  /\ nq' = nq + 1
  /\ messages' = initial_messages(user_text)
  /\ pc' = "llm"
  /\ UNCHANGED <<raw, servers, stack, closed, openai_tools, k, status,
                 tool_calls, tool_messages, i, msg, answer, requests, ninv,
                 dispVars>>

\* a loop with a round cap of one: the reply after the first round of tool
\* calls is returned as the answer whatever it requests
LLMRepliesCapped(reply) ==
  /\ pc = "llm"
  /\ reply.tool_calls = <<>> \/ Len(requests) < MaxRequests
  /\ ninv + Len(reply.tool_calls) <= MaxInvocations
  /\ requests' = Append(requests, messages)
  /\ ninv' = ninv + Len(reply.tool_calls)
  /\ msg' = Some(reply)
  /\ messages' = Append(messages, model_dump(reply))
  /\ IF reply.tool_calls = <<>> \/ Len(messages) > 2
       THEN /\ answer' = Some(final_answer(reply))
            /\ pc' = "prompt"
            /\ UNCHANGED <<tool_calls, tool_messages, i>>
       ELSE /\ tool_calls' = reply.tool_calls
            /\ tool_messages' = <<>>
            /\ i' = 1
            /\ pc' = "dispatch"
            /\ UNCHANGED answer
  /\ UNCHANGED <<raw, servers, stack, closed, openai_tools, k, status, nq,
                 dispVars>>

\* llm_client.chat.completions.create returns msg; lines 80-87
LLMReplies(reply) ==
  /\ pc = "llm"
  /\ reply.tool_calls = <<>> \/ Len(requests) < MaxRequests
  /\ ninv + Len(reply.tool_calls) <= MaxInvocations
  /\ requests' = Append(requests, messages)
  /\ ninv' = ninv + Len(reply.tool_calls)
  /\ msg' = Some(reply)
  /\ messages' = Append(messages, model_dump(reply))
  /\ IF reply.tool_calls = <<>>
       THEN /\ answer' = Some(final_answer(reply))
            /\ pc' = "prompt"
            /\ UNCHANGED <<tool_calls, tool_messages, i>>
       ELSE /\ tool_calls' = reply.tool_calls
            /\ tool_messages' = <<>>
            /\ i' = 1
            /\ pc' = "dispatch"
            /\ UNCHANGED answer
  /\ UNCHANGED <<raw, servers, stack, closed, openai_tools, k, status, nq,
                 dispVars>>

\* the model request raises
LLMRaises ==
  /\ pc = "llm"
  /\ ExitStack("LLMError")
  /\ UNCHANGED <<raw, servers, openai_tools, k, nq, agentVars, dispVars>>

\* the invocations of a round started without awaiting the one before
AgentDispatchConcurrent ==
  \/ /\ pc = "dispatch"
     /\ DispatchEnter(tool_calls[i])
     /\ UNCHANGED <<loopVars, agentVars>>
  \/ /\ pc = "dispatch"
     /\ d_pc = "call_tool"
     /\ i < Len(tool_calls)
     /\ Len(calls) < ninv
     /\ LET parts == Split(tool_calls[i + 1].name)
        IN  /\ Len(parts) = 2
            /\ ~no_session(servers, parts[1])
            /\ calls' = Append(calls,
                 call_request(servers[servers_get(servers, parts[1])],
                              parts[2], {}))
     /\ UNCHANGED <<loopVars, agentVars, d_pc, d_tc, d_ret, d_exc, d_reply,
                    dispatched>>

\* line 92: run_agent_once calls dispatch_tool_call(tc, servers)
AgentDispatch ==
  /\ pc = "dispatch"
  /\ DispatchEnter(tool_calls[i])
  /\ UNCHANGED <<loopVars, agentVars>>

\* lines 93-106: the dispatch returned its text
AgentResume ==
  /\ pc = "dispatch"
  /\ d_pc = "returned"
  /\ d_pc' = "idle"
  /\ d_tc' = None
  /\ d_ret' = <<>>
  /\ d_reply' = None
  /\ tool_messages' = Append(tool_messages, tool_message(tool_calls[i], d_ret))
  /\ IF i < Len(tool_calls)
       THEN i' = i + 1 /\ UNCHANGED <<messages, pc, tool_calls>>
       ELSE /\ messages' = extend(messages, tool_messages')
            /\ i' = 0
            /\ tool_calls' = <<>>
            /\ pc' = "llm"
  /\ UNCHANGED <<raw, servers, stack, closed, openai_tools, k, status, nq,
                 msg, answer, requests, ninv, d_exc, calls, dispatched>>

\* the dispatch let an exception through: it leaves run_agent_once and
\* chat_loop, neither of which catches it
AgentDispatchRaised ==
  /\ pc = "dispatch"
  /\ d_pc = "raised"
  /\ ExitStack(d_exc)
  /\ d_pc' = "idle"
  /\ UNCHANGED <<raw, servers, openai_tools, k, nq, agentVars,
                 d_tc, d_ret, d_exc, d_reply, calls, dispatched>>

\* ------------------------------------------------------------- chat loop
\* input raises EOFError or KeyboardInterrupt, or the user types exit/quit:
\* the loop breaks and the AsyncExitStack exits normally
ReadExit ==
  /\ pc = "prompt"
  /\ ExitStack("ok")
  /\ UNCHANGED <<raw, servers, openai_tools, k, nq, agentVars, dispVars>>

\* a blank line: continue
ReadBlank ==
  /\ pc = "prompt"
  /\ UNCHANGED vars

\* the main task is cancelled while it awaits a provider
Cancelled ==
  /\ \/ pc \in {"spawn", "session", "initialize", "list_tools"}
     \/ pc = "dispatch" /\ d_pc = "call_tool"
  /\ ExitStack("CancelledError")
  /\ d_pc' = "idle"
  /\ UNCHANGED <<raw, servers, openai_tools, k, nq, agentVars,
                 d_tc, d_ret, d_exc, d_reply, calls, dispatched>>

\* ------------------------------------------------------- input domains
SeqsUpTo(S, n) == UNION {[1..m -> S] : m \in 0..n}
Injective(f) == \A a, b \in DOMAIN f : f[a] = f[b] => a = b
Range(f) == {f[a] : a \in DOMAIN f}

TextPart(t) == [type |-> "text", text |-> t]
OtherPart(t) == [type |-> "other", text |-> t]
Result(parts) == [content |-> parts]

\* the run: one or two providers, each listing nothing or one tool
Configs == {<<Str(<<"b">>)>>, <<Str(<<"b">>), Str(<<"k">>)>>}
Catalogs == {<<>>, <<Str(<<"k">>)>>}
Queries == {Str(<<"b">>), Str(<<"k">>)}
Contents == {None, Some(Str(<<"b">>))}
Results == {Result(<<TextPart(Str(<<"b">>))>>)}
Details == {Str(<<"z">>)}
\* names the model may issue: the listed tools and one without a separator
ModelNames == Range(openai_tools) \cup {Str(<<"k">>)}
ModelArguments == {Some("{}")}
ModelCalls == [name : ModelNames, arguments : ModelArguments]

\* the invocations of a reply, with fresh correlation ids
numbered(picks) ==
  [j \in 1..Len(picks) |->
     [id |-> ninv + j, name |-> picks[j].name, arguments |-> picks[j].arguments]]

Replies ==
  {[content |-> c, tool_calls |-> numbered(picks)] :
     c \in Contents, picks \in SeqsUpTo(ModelCalls, MaxInvocations - ninv)}

\* --------------------------------------------------------- specifications
\* no query and no dispatch has started
Idle ==
  /\ k = 0
  /\ status = ""
  /\ nq = 0
  /\ messages = <<>>
  /\ tool_calls = <<>>
  /\ tool_messages = <<>>
  /\ i = 0
  /\ msg = None
  /\ answer = None
  /\ requests = <<>>
  /\ ninv = 0
  /\ d_pc = "idle"
  /\ d_tc = None
  /\ d_ret = <<>>
  /\ d_exc = ""
  /\ d_reply = None
  /\ calls = <<>>
  /\ dispatched = <<>>

\* the process starts with one of the configurations cfgs
InitWith(cfgs) ==
  /\ raw \in cfgs
  /\ servers = <<>>
  /\ stack = <<>>
  /\ closed = <<>>
  /\ openai_tools = <<>>
  /\ pc = "main"
  /\ Idle

Init == InitWith(Configs)

Next ==
  \/ BuildServers
  \/ Spawn
  \/ OpenSession
  \/ Initialize
  \/ \E tools \in Catalogs : ListTools(tools)
  \/ StartupFails
  \/ \E q \in Queries : RunQuery(q)
  \/ \E reply \in Replies : LLMReplies(reply)
  \/ LLMRaises
  \/ AgentDispatch
  \/ AgentResume
  \/ AgentDispatchRaised
  \/ \E result \in Results : CallToolReturns(result)
  \/ CallToolMalformed
  \/ \E detail \in Details : CallToolRaises(detail)
  \/ ReadExit
  \/ ReadBlank
  \/ Cancelled

Spec == Init /\ [][Next]_vars

\* ------------------------------------------- startup over wide catalogs
\* provider names: plain, ending in one underscore, holding the separator
ProviderNames == {Str(<<"b">>), Str(<<"b", "_">>), Str(<<"b", "_", "_", "k">>)}
\* local tool names: plain and beginning with an underscore
ToolNames == {Str(<<"k">>), Str(<<"_", "k">>)}

StartupConfigs == {cfg \in SeqsUpTo(ProviderNames, MaxProviders) : Injective(cfg)}
StartupCatalogs == SeqsUpTo(ToolNames, MaxTools)

InitStartup == InitWith(StartupConfigs)

NextStartup ==
  \/ BuildServers
  \/ Spawn
  \/ OpenSession
  \/ Initialize
  \/ \E tools \in StartupCatalogs : ListTools(tools)
  \/ StartupFails
  \/ ReadExit
  \/ Cancelled

SpecStartup == InitStartup /\ [][NextStartup]_vars

\* ------------------------------ dispatch_tool_call over wide arguments
LongText == Run("y", MaxOutput + 1)

\* servers maps: any providers, each with or without a session
ServerRecords ==
  {[name |-> p, session |-> ss] : p \in ProviderNames, ss \in {None}}
  \cup {[name |-> p, session |-> Some(p)] : p \in ProviderNames}
DispatchServers ==
  {srvs \in SeqsUpTo(ServerRecords, MaxProviders) :
     \A a, b \in DOMAIN srvs : srvs[a].name = srvs[b].name => a = b}

\* the tool list of a servers map whose started providers each list "k"
RECURSIVE listed(_)
listed(srvs) ==
  IF srvs = <<>> THEN <<>>
  ELSE (IF Head(srvs).session = None THEN <<>>
        ELSE server_tools(Head(srvs).name, <<Str(<<"k">>)>>))
       \o listed(Tail(srvs))

DispatchNames ==
  {<<>>, Str(<<"k">>), Str(<<"_">>), LongText}
  \cup {unique_name(p, t) :
          p \in ProviderNames \cup {Str(<<"k">>)},
          t \in ToolNames \cup {<<>>, Str(<<"k", "_", "_", "b">>), LongText}}
DispatchArguments ==
  {None, Some(""), Some("{}"), Some("{\"k\": 1}"), Some("oops"), Some(DeepJson)}
DispatchCalls == [id : {1}, name : DispatchNames, arguments : DispatchArguments]
DispatchResults ==
  {Result(<<>>),
   Result(<<TextPart(Str(<<"b">>))>>),
   Result(<<TextPart(Str(<<"b">>)), OtherPart(Str(<<"k">>))>>),
   Result(<<TextPart(Run("y", MaxOutput))>>),
   Result(<<TextPart(LongText)>>),
   Result(<<TextPart(Run("y", MaxOutput - 1)), TextPart(Str(<<"b">>))>>)}
DispatchDetails == {<<>>, Str(<<"z">>), LongText}

\* the contexts a servers map with these sessions has entered
RECURSIVE entered(_)
entered(srvs) ==
  IF srvs = <<>> THEN <<>>
  ELSE (IF Head(srvs).session = None THEN <<>>
        ELSE <<[kind |-> "stdio", name |-> Head(srvs).name],
               [kind |-> "session", name |-> Head(srvs).name]>>)
       \o entered(Tail(srvs))

\* a caller holding a servers map, about to await dispatch_tool_call, while
\* the AsyncExitStack is open or after it has exited
InitDispatch ==
  /\ servers \in DispatchServers
  /\ raw = [j \in 1..Len(servers) |-> servers[j].name]
  /\ \/ stack = entered(servers) /\ closed = <<>>
     \/ stack = <<>> /\ closed = Reverse(entered(servers))
  /\ openai_tools = listed(servers)
  /\ pc = "call"
  /\ Idle

\* await dispatch_tool_call(tool_call, servers)
CallDispatch(tc) ==
  /\ pc = "call"
  /\ d_tc = None
  /\ DispatchEnter(tc)
  /\ UNCHANGED <<loopVars, agentVars>>

NextDispatch ==
  \/ \E tc \in DispatchCalls : CallDispatch(tc)
  \/ \E result \in DispatchResults : CallToolReturns(result)
  \/ CallToolMalformed
  \/ \E detail \in DispatchDetails : CallToolRaises(detail)

SpecDispatch == InitDispatch /\ [][NextDispatch]_vars

\* ------------------------------------------------ names, round trip
\* every string of at most MaxNameLen characters over "b" and "_"
Names == {Str(chars) : chars \in SeqsUpTo({"b", "_"}, MaxNameLen)}
\* provider names without the separator
LegalProviderNames == {p \in Names : FirstSep(p) = 0}

\* one started provider named p
InitNames ==
  /\ \E p \in LegalProviderNames : servers = <<[name |-> p, session |-> Some(p)]>>
  /\ raw = [j \in 1..Len(servers) |-> servers[j].name]
  /\ stack = entered(servers)
  /\ closed = <<>>
  /\ openai_tools = <<>>
  /\ pc = "call"
  /\ Idle

\* the provider lists tool t, mcp_tool_to_openai_tool names it and the model
\* issues that name
CallListed(t) ==
  /\ pc = "call"
  /\ d_tc = None
  /\ openai_tools' = server_tools(servers[1].name, <<t>>)
  /\ DispatchEnter([id |-> 1, name |-> unique_name(servers[1].name, t),
                    arguments |-> Some("{}")])
  /\ UNCHANGED <<raw, servers, stack, closed, pc, k, status, nq, agentVars>>

NextNames ==
  \/ \E t \in Names : CallListed(t)
  \/ \E result \in Results : CallToolReturns(result)

SpecNames == InitNames /\ [][NextNames]_vars

\* ------------------------------------- the query loop under fair scheduling
\* chat_loop at its prompt after init_servers started one provider
InitQuery ==
  /\ raw = <<Str(<<"b">>)>>
  /\ servers = <<[name |-> Str(<<"b">>), session |-> Some(Str(<<"b">>))]>>
  /\ stack = entered(servers)
  /\ closed = <<>>
  /\ openai_tools = listed(servers)
  /\ pc = "prompt"
  /\ Idle

\* the awaited model request completes, with a reply or an exception
ModelResponds == (\E reply \in Replies : LLMReplies(reply)) \/ LLMRaises

\* the model answers without a tool invocation
ModelStops ==
  \E reply \in Replies : reply.tool_calls = <<>> /\ LLMReplies(reply)

\* the awaited call_tool completes, with a result or an exception
ProviderResponds ==
  \/ \E result \in Results : CallToolReturns(result)
  \/ CallToolMalformed
  \/ \E detail \in Details : CallToolRaises(detail)

NextQuery ==
  \/ \E q \in Queries : RunQuery(q)
  \/ ModelResponds
  \/ AgentDispatch
  \/ AgentResume
  \/ AgentDispatchRaised
  \/ ProviderResponds
  \/ ReadExit
  \/ ReadBlank
  \/ Cancelled

\* the event loop runs every ready step of run_agent_once; every model
\* request and every call_tool completes; a model asked again and again
\* eventually answers without a tool invocation
SpecQuery ==
  /\ InitQuery
  /\ [][NextQuery]_vars
  /\ WF_vars(AgentDispatch)
  /\ WF_vars(AgentResume)
  /\ WF_vars(AgentDispatchRaised)
  /\ WF_vars(ProviderResponds)
  /\ WF_vars(ModelResponds)
  /\ SF_vars(ModelStops)

\* ================================================================ claims
TruncationMarker == Lit("\n...(output truncated)...")
EndsWithUnderscore(p) == p # <<>> /\ p[Len(p)].c = "_"
\* the name does not resolve: no separator, or a prefix that is no provider
Unresolved(name) ==
  \/ Len(Split(name)) # 2
  \/ servers_get(servers, Split(name)[1]) = 0

\* C1 (SpecDispatch): dispatch_tool_call never lets an exception through to
\* its caller, whatever the name, the arguments and the provider's behaviour.
C1_NeverRaises == d_pc # "raised"

\* C2 (SpecDispatch): every text dispatch_tool_call returns has at most
\* 8000 characters plus the length of the truncation marker.
C2_OutputBounded ==
  d_pc = "returned" => StrLen(d_ret) <= MaxOutput + StrLen(TruncationMarker)

\* C3 (SpecDispatch): dispatching a name that is not in the tool list built
\* at startup sends no call_tool request to any provider.
C3_UnregisteredNoCall ==
  (d_tc # None /\ d_tc[1].name \notin Range(openai_tools)) => calls = <<>>

\* C4 (SpecDispatch): the diagnostic returned for a name that does not
\* resolve contains the complete qualified name.
C4_DiagnosticNamesTool ==
  (d_pc = "returned" /\ Unresolved(d_tc[1].name))
    => Contains(d_ret, d_tc[1].name)

\* the request the dispatch of the listed tool t of provider p must send
RoundTrips(p, t) ==
  /\ Len(calls) = 1
  /\ calls[1].server = p
  /\ calls[1].name = t

\* C5 as stated (SpecNames): for every provider name p without the separator
\* and every tool name t, splitting p + "__" + t recovers (p, t), so the
\* dispatch of the listed name calls tool t of provider p.
C5_RoundTripAnyProvider ==
  \A t \in Names :
    (d_tc # None /\ d_tc[1].name = unique_name(servers[1].name, t))
      => RoundTrips(servers[1].name, t)

\* C5 as amended (SpecNames): for every provider name p that neither contains
\* the separator nor ends with an underscore and every tool name t, splitting
\* p + "__" + t on the first separator recovers (p, t).
C5_RoundTrip ==
  \A t \in Names :
    (/\ d_tc # None
     /\ d_tc[1].name = unique_name(servers[1].name, t)
     /\ ~EndsWithUnderscore(servers[1].name))
      => RoundTrips(servers[1].name, t)

\* a tool name that begins with an underscore and holds the separator was
\* dispatched to a provider whose name ends with no underscore
C5_Witness ==
  /\ d_pc = "call_tool"
  /\ ~EndsWithUnderscore(servers[1].name)
  /\ servers[1].name # <<>>
  /\ calls[1].name = Str(<<"_", "_", "b">>)

\* C6 (SpecStartup): the tool list init_servers returns has pairwise
\* distinct names, whatever the providers list.
C6_NamesDistinct == pc = "prompt" => Injective(openai_tools)

\* C7 (SpecStartup): startup fails, and never reaches the prompt, when a
\* provider name contains the separator or when a provider lists a tool whose
\* qualified name an earlier provider already produced.
C7_BuildRejects ==
  /\ []((\E j \in DOMAIN raw : FirstSep(raw[j]) # 0) => pc # "prompt")
  /\ [][(/\ pc = "list_tools"
         /\ \E a \in DOMAIN openai_tools, b \in DOMAIN openai_tools' :
              b > Len(openai_tools) /\ openai_tools'[b] = openai_tools[a])
        => pc' = "exited"]_vars

\* C8 (Spec): a reply without tool invocations ends run_agent_once with that
\* reply's content, "" when the content is absent, and the step from the
\* reply to the return sends no provider call.
C8_PlainReplyIsAnswer ==
  /\ []((pc = "prompt" /\ msg # None)
          => /\ msg[1].tool_calls = <<>>
             /\ answer = Some(IF msg[1].content = None THEN <<>>
                              ELSE msg[1].content[1]))
  /\ [][(pc = "llm" /\ pc' = "prompt") => calls' = calls]_vars

\* run_agent_once returned "" for a reply without content, after a round of
\* tool calls
C8_Witness ==
  /\ pc = "prompt"
  /\ msg # None
  /\ msg[1].content = None
  /\ answer = Some(<<>>)
  /\ calls # <<>>

\* the text dispatch_tool_call returned for the invocation with this id
HasText(id) == \E n \in DOMAIN dispatched : dispatched[n].id = id
TextFor(id) ==
  dispatched[CHOOSE n \in DOMAIN dispatched : dispatched[n].id = id].text
ToolMessageFor(tc) ==
  [role |-> "tool", tool_call_id |-> tc.id, name |-> tc.name,
   content |-> TextFor(tc.id)]

\* C9 (Spec): at every model request, each assistant reply with invocations
\* [i1..ik] is followed directly by exactly k tool messages, the j-th with the
\* id, the name and the dispatched text of ij; during a round the tool
\* messages collected so far are those of the first invocations, in order.
C9_ToolMessagesInOrder ==
  /\ pc = "llm" =>
       \A a \in DOMAIN messages :
         messages[a].role = "assistant" =>
           LET tcs == messages[a].tool_calls IN
           /\ a + Len(tcs) <= Len(messages)
           /\ \A j \in 1..Len(tcs) :
                HasText(tcs[j].id) /\ messages[a + j] = ToolMessageFor(tcs[j])
           /\ \/ a + Len(tcs) = Len(messages)
              \/ messages[a + Len(tcs) + 1].role = "assistant"
  /\ pc = "dispatch" =>
       /\ Len(tool_messages) = i - 1
       /\ \A j \in 1..Len(tool_messages) :
            HasText(tool_calls[j].id)
              /\ tool_messages[j] = ToolMessageFor(tool_calls[j])

\* a round of two invocations with different results is in the conversation
\* of the next model request
C9_Witness ==
  /\ pc = "llm"
  /\ \E a \in DOMAIN messages :
       /\ messages[a].role = "assistant"
       /\ Len(messages[a].tool_calls) = 2
       /\ Len(messages) = a + 2
       /\ messages[a + 1].content # messages[a + 2].content

RaisedDetail == d_reply # None /\ d_reply[1].kind = "exc"

\* C10 (Spec): when call_tool raises, dispatch_tool_call returns a text that
\* contains the qualified name and the error detail; run_agent_once appends
\* it as that invocation's tool message and goes on with the next invocation
\* of the round, or with the next model request after the last one; the run
\* does not end.
C10_ProviderErrorAbsorbed ==
  /\ []((d_pc = "returned" /\ RaisedDetail)
          => /\ Contains(d_ret, d_tc[1].name)
             /\ Contains(d_ret, d_reply[1].detail))
  /\ [][(pc = "dispatch" /\ d_pc = "returned" /\ RaisedDetail)
        => /\ status' = ""
           /\ tool_messages' =
                Append(tool_messages,
                       [role |-> "tool", tool_call_id |-> tool_calls[i].id,
                        name |-> tool_calls[i].name, content |-> d_ret])
           /\ IF i < Len(tool_calls)
                THEN pc' = "dispatch" /\ i' = i + 1
                ELSE pc' = "llm" /\ messages' = messages \o tool_messages']_vars

\* the first of two invocations raised, the second was dispatched, and the
\* next model request is due with the error text in the conversation
C10_Witness ==
  /\ pc = "llm"
  /\ Len(messages) = 5
  /\ messages[4].role = "tool"
  /\ messages[4].content = tool_error_text(messages[4].name, Str(<<"z">>))
  /\ messages[5].role = "tool"

\* the chat loop is serving: at the prompt or inside run_agent_once
Serving == pc \in {"prompt", "llm", "dispatch"}

\* provider j was spawned and its session opened, and both are still held
Started(j) ==
  /\ servers[j].session # None
  /\ [kind |-> "stdio", name |-> servers[j].name] \in Range(stack)
  /\ [kind |-> "session", name |-> servers[j].name] \in Range(stack)

StartupErrors == {"LaunchError", "HandshakeError", "ListError"}

\* C11: the chat loop serves queries only after init_servers went through
\* every configured provider (spawn, session, handshake, listing); when any
\* provider fails to start, no query is read and no model request is made.
C11_NoQueryBeforeAllStarted ==
  /\ Serving =>
       /\ Len(servers) = Len(raw)
       /\ k = 0
       /\ \A j \in DOMAIN servers : Started(j)
  /\ (nq > 0 \/ requests # <<>> \/ answer # None) => status \notin StartupErrors
  /\ status \in StartupErrors => ~Serving

\* a query is being served with two providers configured and started
C11_Witness ==
  /\ pc = "llm"
  /\ Len(servers) = 2
  /\ \A j \in DOMAIN servers : Started(j)

\* C12: on every way out of the chat loop (exit command, startup failure,
\* failed query, cancellation) every entered provider context is released,
\* in reverse order of entry, and none stays held.
C12_AllReleasedOnExit ==
  [][(pc' = "exited" /\ pc # "exited") =>
       /\ stack' = <<>>
       /\ closed' = closed \o Reverse(stack)
       /\ \A j \in DOMAIN servers' :
            servers'[j].session # None =>
              /\ [kind |-> "stdio", name |-> servers'[j].name] \in Range(closed')
              /\ [kind |-> "session", name |-> servers'[j].name] \in Range(closed')]_vars

\* cancelled while the second provider's session was being opened: the three
\* contexts entered so far are released, the newest first
C12_Witness ==
  /\ pc = "exited"
  /\ status = "CancelledError"
  /\ Len(closed) = 3
  /\ closed[1].kind = "stdio"
  /\ closed[2].kind = "session"
  /\ closed[3].kind = "stdio"
  /\ stack = <<>>

\* C13: a query aborted by a failed model request or by cancellation leaves
\* the provider contexts held and puts the chat loop back at its prompt.
C13_AbortKeepsSessions ==
  [][(pc \in {"llm", "dispatch"} /\ status' \in {"LLMError", "CancelledError"}) =>
       /\ pc' = "prompt"
       /\ stack' = stack
       /\ closed' = closed]_vars

\* the provider named p is registered and its session can serve a call: the
\* session was opened and its context has not been exited
Ready(p) ==
  \E j \in DOMAIN servers :
    /\ servers[j].name = p
    /\ servers[j].session # None
    /\ [kind |-> "session", name |-> p] \in Range(stack)

\* C14 (SpecDispatch): when the name resolves to a registered provider whose
\* session is not ready (never opened, or closed), dispatch sends no
\* call_tool request and returns the session-not-found diagnostic.
C14_NotReadyNoCall ==
  (/\ d_tc # None
   /\ ~Unresolved(d_tc[1].name)
   /\ ~Ready(Split(d_tc[1].name)[1]))
    => /\ calls = <<>>
       /\ d_pc = "returned" =>
            d_ret = session_not_found_text(Split(d_tc[1].name)[1])

\* C15 (SpecStartup): after a provider's handshake failed, its MCPServer
\* record holds no session that dispatch_tool_call would accept.
C15_FailedHandshakeNoSession ==
  status = "HandshakeError" => no_session(servers, servers[k].name)

\* the arguments string of the dispatched tool call does not parse as JSON
ArgumentsDoNotParse ==
  json_loads(args_or_default(d_tc[1].arguments)).exc # "none"

\* C16 (SpecDispatch): when the arguments string does not parse as JSON and
\* the name resolves to a provider with a session, the dispatch goes on and
\* the tool is called exactly once, with an empty arguments object.
C16_BadArgumentsCallEmpty ==
  (/\ d_tc # None
   /\ ArgumentsDoNotParse
   /\ ~Unresolved(d_tc[1].name)
   /\ ~no_session(servers, Split(d_tc[1].name)[1]))
    => /\ Len(calls) = 1
       /\ calls[1].arguments = {}

\* r is the first request of a query: the system prompt and one query text
FreshRequest(r) ==
  /\ Len(r) = 2
  /\ r[1] = [role |-> "system", content |-> SYSTEM_PROMPT]
  /\ r[2].role = "user"
  /\ r[2].content \in Queries

\* r is the next request of the query that sent prev: prev, then one
\* assistant message with tool invocations, then tool messages answering it
ContinuesQuery(prev, r) ==
  /\ Len(r) > Len(prev) + 1
  /\ SubSeq(r, 1, Len(prev)) = prev
  /\ r[Len(prev) + 1].role = "assistant"
  /\ r[Len(prev) + 1].tool_calls # <<>>
  /\ \A j \in Len(prev) + 2 .. Len(r) :
       /\ r[j].role = "tool"
       /\ \E t \in DOMAIN r[Len(prev) + 1].tool_calls :
            r[Len(prev) + 1].tool_calls[t].id = r[j].tool_call_id

\* C17: every query runs on a conversation of its own. The first model
\* request of a query carries exactly the system prompt and that query's
\* text, and every later request of the query extends the previous request
\* by the messages of one round, so no message of an earlier query is ever
\* sent with a later query.
C17_FreshConversationPerQuery ==
  /\ \A n \in DOMAIN requests :
       \/ FreshRequest(requests[n])
       \/ n > 1 /\ ContinuesQuery(requests[n - 1], requests[n])
  /\ Cardinality({n \in DOMAIN requests : FreshRequest(requests[n])}) <= nq
  /\ pc = "llm" =>
       \/ FreshRequest(messages)
       \/ requests # <<>> /\ ContinuesQuery(requests[Len(requests)], messages)

\* the first query took a tool round, and the request of the second query
\* carries two messages again
C17_Witness ==
  /\ Len(requests) = 3
  /\ Len(requests[2]) > 2
  /\ FreshRequest(requests[3])
  /\ nq = 2

\* C18: while queries are served, no step of run_agent_once or of
\* dispatch_tool_call changes the registered providers, their session
\* references or the tool list; every invocation whose name resolves to a
\* registered provider is sent to that provider's session, also after an
\* earlier call to the same provider failed.
C18_RegistryStableWhileServing ==
  [][Serving =>
       /\ servers' = servers
       /\ openai_tools' = openai_tools
       /\ (d_pc = "idle" /\ d_pc' # "idle" /\ ~Unresolved(d_tc'[1].name)) =>
            /\ d_pc' = "call_tool"
            /\ Len(calls') = Len(calls) + 1
            /\ calls'[Len(calls')].server = Split(d_tc'[1].name)[1]
            /\ Ready(calls'[Len(calls')].server)]_vars

\* the first invocation of a round raised at its provider, and the second
\* invocation is outstanding at the same provider's session
C18_Witness ==
  /\ pc = "dispatch"
  /\ i = 2
  /\ d_pc = "call_tool"
  /\ tool_messages[1].content =
       tool_error_text(tool_calls[1].name, Str(<<"z">>))
  /\ Len(calls) = 2
  /\ calls[1].server = calls[2].server
  /\ calls[1].session = calls[2].session

\* C20: within a query at most one call_tool request is outstanding. A
\* request is sent only when no other is outstanding and every earlier
\* invocation of the round has its tool message, and no model request is
\* made while one is outstanding.
C20_OneCallInFlight ==
  [][/\ Len(calls') > Len(calls) =>
          /\ Len(calls') = Len(calls) + 1
          /\ pc = "dispatch"
          /\ d_pc = "idle"
          /\ d_pc' = "call_tool"
          /\ Len(tool_messages) = i - 1
     /\ Len(requests') > Len(requests) => pc = "llm" /\ d_pc = "idle"
     /\ d_pc = "call_tool" =>
          /\ Len(calls') = Len(calls)
          /\ Len(requests') = Len(requests)]_vars

\* the second invocation of a round is outstanding; the first has returned
\* and has its tool message
C20_Witness ==
  /\ pc = "dispatch"
  /\ d_pc = "call_tool"
  /\ i = 2
  /\ Len(calls) = 2
  /\ Len(tool_messages) = 1
  /\ Len(requests) = 1

\* run_agent_once is running
InQuery == pc \in {"llm", "dispatch"}

\* C19 (SpecQuery): run_agent_once returns exactly on a model reply without
\* tool invocations: no other step, and no count of rounds, takes the loop
\* back to the prompt. Every round of tool calls ends with a longer
\* conversation and a new model request, and once the model answers without
\* a tool invocation the query is done (unless a request or call raised or
\* the run was cancelled, which ends the program).
C19_ReturnsIffNoInvocations ==
  /\ [][(InQuery /\ pc' = "prompt") <=>
          (pc = "llm" /\ msg' # None /\ msg'[1].tool_calls = <<>>
                      /\ Len(requests') = Len(requests) + 1)]_vars
  /\ [][(pc = "dispatch" /\ pc' = "llm") =>
          Len(messages') > Len(requests[Len(requests)]) + 1]_vars
  /\ (pc = "dispatch") ~> (pc = "llm" \/ pc = "exited")
  /\ (pc = "llm") ~> ((pc = "prompt" /\ answer # None) \/ pc = "exited")

\* the reply after a round of tool calls carried no invocation and the
\* query is done
C19_Witness ==
  /\ pc = "prompt"
  /\ answer # None
  /\ Len(requests) = 2
  /\ Len(requests[2]) > 2
  /\ msg[1].tool_calls = <<>>
  /\ nq = 1

====
